---- MODULE Spec2Model ----
(***************************************************************************)
(* Model of scripts/cigar_inspector.py: the CIGAR decoders                 *)
(* cigar_to_coords and cigar_to_match_coords, the window anchors and       *)
(* rectangles of plot_genasm_windows, and the tick relabelling callback    *)
(* on_lims_change of cigar_inspector.                                      *)
(*                                                                         *)
(* A string is a sequence of one-character strings.  A coordinate pair     *)
(* (i, j) is the tuple <<i, j>>: i is the read offset, j the reference     *)
(* offset.  Calls into matplotlib that only draw are not modelled.         *)
(***************************************************************************)
EXTENDS Integers, Sequences, FiniteSets, TLC

VARIABLES
    cigar,            \* the CIGAR string handed to the decoders
    W, O,             \* window size and overlap
    read_len,         \* len(read)
    ref_len,          \* len(reference)
    pc,               \* the function (or loop) being executed
    caller,           \* who called cigar_to_coords
    pos,              \* where re.finditer resumes its scan of cigar
    i, j,             \* the cursor of the running decoder
    res,              \* the result list of the running decoder
    alignment_path,   \* value returned by cigar_to_coords
    match_segments,   \* value returned by cigar_to_match_coords
    k,                \* number of path vertices the anchor scan has visited
    window_starts,    \* the anchor list of plot_genasm_windows
    window_ends,      \* window_end of every rectangle drawn
    xlim, ylim,       \* the axes' view limits, in halves of a base
    x_locator,        \* "AutoLocator", or "FixedLocator" after set_xticks
    y_locator,        \* the same for the y axis
    x_indices,        \* indices labelled on the x axis by on_lims_change
    y_indices         \* indices labelled on the y axis by on_lims_change

vars == <<cigar, W, O, read_len, ref_len, pc, caller, pos, i, j,
          res, alignment_path, match_segments, k, window_starts, window_ends,
          xlim, ylim, x_locator, y_locator, x_indices, y_indices>>

decoder_vars == <<pos, i, j, res, alignment_path, match_segments, caller>>
window_vars  == <<k, window_starts, window_ends>>
input_vars   == <<cigar, W, O, read_len, ref_len>>
tick_vars    == <<xlim, ylim, x_locator, y_locator, x_indices, y_indices>>

(***************************************************************************)
(* Bounds of the model.                                                    *)
(***************************************************************************)
MaxLen    == 4   \* longest arbitrary string handed to the decoders
MaxRuns   == 2   \* most runs of a CIGAR string whose windows are plotted
MaxW      == 2   \* largest window size
MaxO      == 1   \* largest overlap
MaxSeqLen == 2   \* longest read and reference

\* the visible range below which bases are labelled one by one (line 128)
ZoomThreshold == 100

(***************************************************************************)
(* Characters.                                                             *)
(***************************************************************************)
DigitChars == {"0", "1", "2", "3", "4", "5", "6", "7", "8", "9"}
EditTypes  == {"=", "X", "I", "D"}

\* the characters the arbitrary input strings are made of: three digits,
\* the four edit types and one character that is neither
Alphabet == {"0", "1", "2", "=", "X", "I", "D", "Z"}

DigitVal(c) ==
    CASE c = "0" -> 0 [] c = "1" -> 1 [] c = "2" -> 2 [] c = "3" -> 3
      [] c = "4" -> 4 [] c = "5" -> 5 [] c = "6" -> 6 [] c = "7" -> 7
      [] c = "8" -> 8 [] c = "9" -> 9

\* int(run.group(1)): the decimal value of a string of digits
RECURSIVE IntOf(_)
IntOf(s) ==
    IF s = <<>> THEN 0
    ELSE IntOf(SubSeq(s, 1, Len(s) - 1)) * 10 + DigitVal(s[Len(s)])

(***************************************************************************)
(* re.finditer(r"(\d+)([=XID])", cigar): the leftmost match at or after a  *)
(* position.  \d+ is greedy, and giving a digit back never helps because   *)
(* the character after it would again be a digit, so a match starts at p   *)
(* exactly when the maximal run of digits from p is followed by an edit    *)
(* type.  Text that matches nowhere is skipped without an error.           *)
(***************************************************************************)
RECURSIVE DigitsEnd(_, _)
DigitsEnd(s, p) ==
    IF p <= Len(s) /\ s[p] \in DigitChars THEN DigitsEnd(s, p + 1) ELSE p

MatchAt(s, p) ==
    /\ p <= Len(s)
    /\ s[p] \in DigitChars
    /\ DigitsEnd(s, p) <= Len(s)
    /\ s[DigitsEnd(s, p)] \in EditTypes

\* start of the next match at or after position p, 0 when there is none
NextMatch(s, p) ==
    IF \E q \in p..Len(s) : MatchAt(s, q)
    THEN CHOOSE q \in p..Len(s) :
            MatchAt(s, q) /\ \A r \in p..(q - 1) : ~MatchAt(s, r)
    ELSE 0

(***************************************************************************)
(* The cursor update of a run.  The source has it twice: lines 22-30 in    *)
(* cigar_to_coords and lines 46-54 in cigar_to_match_coords.  The result   *)
(* is <<i, j, raised>>.                                                    *)
(***************************************************************************)
\* variant: a deletion moves the reference cursor backwards
CoordsAdvance_DBackwards(ci, cj, edit_type, edit_count) ==
    IF edit_type = "=" \/ edit_type = "X"
    THEN <<ci + edit_count, cj + edit_count, FALSE>>
    ELSE IF edit_type = "I" THEN <<ci + edit_count, cj, FALSE>>
    ELSE IF edit_type = "D" THEN <<ci, cj - edit_count, FALSE>>
    ELSE <<ci, cj, TRUE>>

\* variant: an insertion advances the reference cursor, not the read cursor
CoordsAdvance_ISwapped(ci, cj, edit_type, edit_count) ==
    IF edit_type = "=" \/ edit_type = "X"
    THEN <<ci + edit_count, cj + edit_count, FALSE>>
    ELSE IF edit_type = "I" THEN <<ci, cj + edit_count, FALSE>>
    ELSE IF edit_type = "D" THEN <<ci, cj + edit_count, FALSE>>
    ELSE <<ci, cj, TRUE>>

CoordsAdvance(ci, cj, edit_type, edit_count) ==
    IF edit_type = "=" \/ edit_type = "X"
    THEN <<ci + edit_count, cj + edit_count, FALSE>>
    ELSE IF edit_type = "I" THEN <<ci + edit_count, cj, FALSE>>
    ELSE IF edit_type = "D" THEN <<ci, cj + edit_count, FALSE>>
    ELSE <<ci, cj, TRUE>>

\* variant: a mismatch run does not move the cursor
MatchAdvance_SkipsX(ci, cj, edit_type, edit_count) ==
    IF edit_type = "="
    THEN <<ci + edit_count, cj + edit_count, FALSE>>
    ELSE IF edit_type = "X" THEN <<ci, cj, FALSE>>
    ELSE IF edit_type = "I" THEN <<ci + edit_count, cj, FALSE>>
    ELSE IF edit_type = "D" THEN <<ci, cj + edit_count, FALSE>>
    ELSE <<ci, cj, TRUE>>

MatchAdvance(ci, cj, edit_type, edit_count) ==
    IF edit_type = "=" \/ edit_type = "X"
    THEN <<ci + edit_count, cj + edit_count, FALSE>>
    ELSE IF edit_type = "I" THEN <<ci + edit_count, cj, FALSE>>
    ELSE IF edit_type = "D" THEN <<ci, cj + edit_count, FALSE>>
    ELSE <<ci, cj, TRUE>>

(***************************************************************************)
(* Inputs.                                                                 *)
(***************************************************************************)
Strings(A, n) == UNION {[1..m -> A] : m \in 0..n}

\* the concrete CIGAR strings of the documentation
Case1 == <<"3", "=", "2", "X", "1", "I", "4", "=">>
Case2 == <<"2", "D", "3", "=">>
Case4 == <<"1", "0", "=", "1", "0", "=">>

\* strings handed to the two decoders: every string over Alphabet up to
\* MaxLen characters, well formed or not
DecoderInputs == Strings(Alphabet, MaxLen) \cup {Case1, Case2}

\* well-formed CIGAR strings whose windows are plotted: up to MaxRuns runs
\* of one count digit and one edit type ("X" moves the cursor as "=" does)
RECURSIVE Flatten(_)
Flatten(ss) == IF ss = <<>> THEN <<>> ELSE Head(ss) \o Flatten(Tail(ss))

WindowRuns == {<<d, t>> : d \in {"0", "1", "2"}, t \in {"=", "I", "D"}}

WindowInputs == {Flatten(rs) : rs \in Strings(WindowRuns, MaxRuns)}

(***************************************************************************)
(* Initial states.  Init: plot_cigar and plot_cigar_matches decode a       *)
(* string (lines 100-101).  InitWindows: plot_genasm_windows is called     *)
(* (line 109).  InitTicks: the figure is shown and waits for events.       *)
(***************************************************************************)
NoTicks ==
    /\ xlim = <<0, 0>>
    /\ ylim = <<0, 0>>
    /\ x_locator = "AutoLocator"
    /\ y_locator = "AutoLocator"
    /\ x_indices = <<>>
    /\ y_indices = <<>>

NoWindows ==
    /\ k = 0
    /\ window_starts = <<>>
    /\ window_ends = <<>>

Init ==
    /\ cigar \in DecoderInputs
    /\ W = 0 /\ O = 0
    /\ read_len = 0 /\ ref_len = 0
    /\ pc = "cigar_to_coords"
    /\ caller = "plot_cigar"
    /\ pos = 1
    /\ i = 0 /\ j = 0
    /\ res = << <<0, 0>> >>
    /\ alignment_path = <<>>
    /\ match_segments = <<>>
    /\ NoWindows
    /\ NoTicks

InitWindows ==
    /\ \/ /\ cigar \in WindowInputs
          /\ W \in 0..MaxW
          /\ O \in 0..MaxO
          /\ read_len \in 0..MaxSeqLen
          /\ ref_len \in 0..MaxSeqLen
       \/ /\ cigar = Case4
          /\ W = 16 /\ O = 4
          /\ read_len = 20 /\ ref_len = 20
    /\ pc = "cigar_to_coords"
    /\ caller = "plot_genasm_windows"
    /\ pos = 1
    /\ i = 0 /\ j = 0
    /\ res = << <<0, 0>> >>
    /\ alignment_path = <<>>
    /\ match_segments = <<>>
    /\ NoWindows
    /\ NoTicks

(***************************************************************************)
(* cigar_to_coords, lines 13-34: one action per iteration of the loop.     *)
(***************************************************************************)
CoordsStep ==
    /\ pc = "cigar_to_coords"
    /\ NextMatch(cigar, pos) # 0
    /\ LET p == NextMatch(cigar, pos)
           q == DigitsEnd(cigar, p)
           edit_count == IntOf(SubSeq(cigar, p, q - 1))
           edit_type == cigar[q]
           a == CoordsAdvance(i, j, edit_type, edit_count)
       IN  IF a[3]
           THEN /\ pc' = "raised"
                /\ UNCHANGED <<pos, i, j, res>>
           ELSE /\ i' = a[1]
                /\ j' = a[2]
                /\ res' = Append(res, <<a[1], a[2]>>)
                /\ pos' = q + 1
                /\ pc' = pc
    /\ UNCHANGED <<alignment_path, match_segments, caller>>
    /\ UNCHANGED <<input_vars, window_vars, tick_vars>>

\* return res (line 34).  plot_cigar is followed by plot_cigar_matches,
\* which starts cigar_to_match_coords (lines 37-40); in
\* plot_genasm_windows the anchor list is set up (line 75).
CoordsReturn ==
    /\ pc = "cigar_to_coords"
    /\ NextMatch(cigar, pos) = 0
    /\ alignment_path' = res
    /\ IF caller = "plot_cigar"
       THEN /\ pc' = "cigar_to_match_coords"
            /\ caller' = "plot_cigar_matches"
            /\ pos' = 1
            /\ i' = 0 /\ j' = 0
            /\ res' = <<>>
            /\ UNCHANGED window_vars
       ELSE /\ pc' = "window_scan"
            /\ window_starts' = << <<0, 0>> >>
            /\ k' = 0
            /\ UNCHANGED <<caller, pos, i, j, res, window_ends>>
    /\ UNCHANGED <<match_segments, input_vars, tick_vars>>

(***************************************************************************)
(* cigar_to_match_coords, lines 36-59.                                     *)
(***************************************************************************)
\* the condition of line 57: the run adds a segment to the result
\* variant: a mismatch run adds a segment too
EmitsSegment_AlsoX(edit_type) == edit_type = "=" \/ edit_type = "X"

EmitsSegment(edit_type) == edit_type = "="

MatchStep ==
    /\ pc = "cigar_to_match_coords"
    /\ NextMatch(cigar, pos) # 0
    /\ LET p == NextMatch(cigar, pos)
           q == DigitsEnd(cigar, p)
           edit_count == IntOf(SubSeq(cigar, p, q - 1))
           edit_type == cigar[q]
           before == <<i, j>>
           a == MatchAdvance(i, j, edit_type, edit_count)
           after == <<a[1], a[2]>>
       IN  IF a[3]
           THEN /\ pc' = "raised"
                /\ UNCHANGED <<pos, i, j, res>>
           ELSE /\ i' = a[1]
                /\ j' = a[2]
                /\ res' = IF EmitsSegment(edit_type)
                          THEN Append(res, <<before, after>>)
                          ELSE res
                /\ pos' = q + 1
                /\ pc' = pc
    /\ UNCHANGED <<alignment_path, match_segments, caller>>
    /\ UNCHANGED <<input_vars, window_vars, tick_vars>>

MatchReturn ==
    /\ pc = "cigar_to_match_coords"
    /\ NextMatch(cigar, pos) = 0
    /\ match_segments' = res
    /\ pc' = "done"
    /\ UNCHANGED <<pos, i, j, res, alignment_path, caller>>
    /\ UNCHANGED <<input_vars, window_vars, tick_vars>>

(***************************************************************************)
(* plot_genasm_windows, lines 73-94.                                       *)
(***************************************************************************)
Min(a, b) == IF a < b THEN a ELSE b
Max(a, b) == IF a > b THEN a ELSE b

\* variant: the stride is taken as O - W
StartsWindow_Swapped(v, last, w, o) ==
    \/ v[1] > last[1] + o - w
    \/ v[2] > last[2] + o - w

\* variant: a vertex exactly W - O past the last anchor starts a window
StartsWindow_AtLeast(v, last, w, o) ==
    \/ v[1] >= last[1] + w - o
    \/ v[2] >= last[2] + w - o

\* the condition of lines 77-78 for vertex v against the last anchor
StartsWindow(v, last, w, o) ==
    \/ v[1] > last[1] + w - o
    \/ v[2] > last[2] + w - o

\* variant: the new anchor is the last one moved by W - O, not the vertex
ScanStep_Stride ==
    /\ pc = "window_scan"
    /\ k < Len(alignment_path)
    /\ LET v == alignment_path[k + 1]
           last == window_starts[Len(window_starts)]
       IN  window_starts' = IF StartsWindow(v, last, W, O)
                            THEN Append(window_starts,
                                        <<last[1] + W - O, last[2] + W - O>>)
                            ELSE window_starts
    /\ k' = k + 1
    /\ UNCHANGED <<pc, window_ends, decoder_vars, input_vars, tick_vars>>

\* one iteration of the loop of lines 76-79
ScanStep ==
    /\ pc = "window_scan"
    /\ k < Len(alignment_path)
    /\ LET v == alignment_path[k + 1]
           last == window_starts[Len(window_starts)]
       IN  window_starts' = IF StartsWindow(v, last, W, O)
                            THEN Append(window_starts, v)
                            ELSE window_starts
    /\ k' = k + 1
    /\ UNCHANGED <<pc, window_ends, decoder_vars, input_vars, tick_vars>>

\* variant: the rectangle is not cut at the end of the sequences
WindowEnd_Unclipped(window_start, w, rlen, flen) ==
    <<window_start[1] + w, window_start[2] + w>>

\* window_end of lines 82-85
WindowEnd(window_start, w, rlen, flen) ==
    <<Min(window_start[1] + w, rlen), Min(window_start[2] + w, flen)>>

\* the loop of lines 81-94, entered when the scan has used up the path
DrawWindows ==
    /\ pc = "window_scan"
    /\ k = Len(alignment_path)
    /\ window_ends' = [n \in 1..Len(window_starts) |->
                          WindowEnd(window_starts[n], W, read_len, ref_len)]
    /\ pc' = "done"
    /\ UNCHANGED <<k, window_starts, decoder_vars, input_vars, tick_vars>>

Next == CoordsStep \/ CoordsReturn \/ MatchStep \/ MatchReturn

Spec == Init /\ [][Next]_vars

NextWindows == CoordsStep \/ CoordsReturn \/ ScanStep \/ DrawWindows

SpecWindows == InitWindows /\ [][NextWindows]_vars

(***************************************************************************)
(* on_lims_change, lines 121-139.  View limits are floats; the model       *)
(* keeps them in halves of a base, so 199 stands for 99.5.                 *)
(***************************************************************************)
\* int(x) of a limit given in halves: rounds towards zero
IntOfHalves(h) == IF h >= 0 THEN h \div 2 ELSE -((-h) \div 2)

\* sorted(...) of a pair of limits
Sorted(lim) == IF lim[1] <= lim[2] THEN lim ELSE <<lim[2], lim[1]>>

\* variant: the index len(read) passes the filter
Indices_Inclusive(a, b, n) ==
    SelectSeq([m \in 1..(b + 1 - a) |-> a + m - 1],
              LAMBDA x : x >= 0 /\ x <= n)

\* [i for i in range(a, b+1) if i >= 0 and i < n] (lines 129-130)
Indices(a, b, n) ==
    SelectSeq([m \in 1..(b + 1 - a) |-> a + m - 1],
              LAMBDA x : x >= 0 /\ x < n)

\* the limit values the model tries: around 0, around the end of the
\* sequences and around ZoomThreshold
LimValues == {-3, -1, 2 * MaxSeqLen - 1,
              2 * ZoomThreshold - 1, 2 * ZoomThreshold, 2 * ZoomThreshold + 3}

InitTicks ==
    /\ cigar = <<>>
    /\ W = 0 /\ O = 0
    /\ read_len \in 0..MaxSeqLen
    /\ ref_len \in 0..MaxSeqLen
    /\ pc = "shown"
    /\ caller = "cigar_inspector"
    /\ pos = 1
    /\ i = 0 /\ j = 0
    /\ res = <<>>
    /\ alignment_path = <<>>
    /\ match_segments = <<>>
    /\ NoWindows
    /\ xlim = <<0, 2 * read_len>>
    /\ ylim = <<2 * ref_len, 0>>
    /\ x_locator = "AutoLocator"
    /\ y_locator = "AutoLocator"
    /\ x_indices = <<>>
    /\ y_indices = <<>>

\* the body of on_lims_change for the limits the axes have when it runs
on_lims_change(xl, yl) ==
    LET x_a == IntOfHalves(Sorted(xl)[1])
        x_b == IntOfHalves(Sorted(xl)[2])
        y_a == IntOfHalves(Sorted(yl)[1])
        y_b == IntOfHalves(Sorted(yl)[2])
        x_range == x_b - x_a
        y_range == y_b - y_a
    IN  IF Max(x_range, y_range) < ZoomThreshold
        THEN /\ x_indices' = Indices(x_a, x_b, read_len)
             /\ y_indices' = Indices(y_a, y_b, ref_len)
             /\ x_locator' = "FixedLocator"
             /\ y_locator' = "FixedLocator"
        ELSE /\ x_locator' = "AutoLocator"
             /\ y_locator' = "AutoLocator"
             /\ x_indices' = <<>>
             /\ y_indices' = <<>>

\* the x limits change and 'xlim_changed' calls on_lims_change (line 141)
XlimChanged ==
    /\ pc \in {"shown", "relabelled"}
    /\ \E lo \in LimValues, hi \in LimValues : xlim' = <<lo, hi>>
    /\ ylim' = ylim
    /\ on_lims_change(xlim', ylim')
    /\ pc' = "relabelled"
    /\ UNCHANGED <<decoder_vars, window_vars, input_vars>>

\* the y limits change and 'ylim_changed' calls on_lims_change (line 142)
YlimChanged ==
    /\ pc \in {"shown", "relabelled"}
    /\ \E lo \in LimValues, hi \in LimValues : ylim' = <<lo, hi>>
    /\ xlim' = xlim
    /\ on_lims_change(xlim', ylim')
    /\ pc' = "relabelled"
    /\ UNCHANGED <<decoder_vars, window_vars, input_vars>>

NextTicks == XlimChanged \/ YlimChanged

SpecTicks == InitTicks /\ [][NextTicks]_vars

(***************************************************************************)
(* What the documentation says of a CIGAR string, stated on the string     *)
(* itself and not through the decoders' scan.                              *)
(***************************************************************************)
\* the string is a concatenation of <digits><symbol> runs
WellFormed(s) ==
    /\ \A p \in 1..Len(s) : s[p] \in DigitChars \cup EditTypes
    /\ Len(s) > 0 => s[Len(s)] \in EditTypes
    /\ \A p \in 1..Len(s) :
          s[p] \in EditTypes => (p > 1 /\ s[p - 1] \in DigitChars)

SymbolPositions(s) == {p \in 1..Len(s) : s[p] \in EditTypes}

NumRuns(s) == Cardinality(SymbolPositions(s))

\* position of the symbol of run n, n in 1..NumRuns(s)
SymbolOf(s, n) ==
    CHOOSE p \in SymbolPositions(s) :
        Cardinality({q \in SymbolPositions(s) : q <= p}) = n

RunType(s, n) == s[SymbolOf(s, n)]

RECURSIVE Pow10(_)
Pow10(n) == IF n = 0 THEN 1 ELSE 10 * Pow10(n - 1)

RECURSIVE SumOver(_, _, _)
SumOver(f(_), lo, hi) == IF lo > hi THEN 0 ELSE f(lo) + SumOver(f, lo + 1, hi)

\* the count of run n of a well-formed string: its digits, most significant
\* first, between the previous symbol and its own
RunCount(s, n) ==
    LET first == IF n = 1 THEN 1 ELSE SymbolOf(s, n - 1) + 1
        last  == SymbolOf(s, n) - 1
        Term(p) == DigitVal(s[p]) * Pow10(last - p)
    IN  SumOver(Term, first, last)

\* read and reference characters consumed by the first n runs
ReadConsumed(s, n) ==
    LET Term(m) == IF RunType(s, m) \in {"=", "X", "I"}
                   THEN RunCount(s, m) ELSE 0
    IN  SumOver(Term, 1, n)

RefConsumed(s, n) ==
    LET Term(m) == IF RunType(s, m) \in {"=", "X", "D"}
                   THEN RunCount(s, m) ELSE 0
    IN  SumOver(Term, 1, n)

\* the runs of type "=", in order
MatchRuns(s) == {n \in 1..NumRuns(s) : RunType(s, n) = "="}

MatchRunOf(s, m) ==
    CHOOSE n \in MatchRuns(s) :
        Cardinality({r \in MatchRuns(s) : r <= n}) = m

CoordsReturned == alignment_path # <<>>

(***************************************************************************)
(* C1.  Both decoders fail with an error on every string that is not a     *)
(* concatenation of <digits><symbol> runs: neither returns a result for    *)
(* it.                                                                     *)
(***************************************************************************)
C1_MalformedInputFails ==
    ~WellFormed(cigar) =>
        /\ ~CoordsReturned
        /\ pc \notin {"cigar_to_match_coords", "done"}

(***************************************************************************)
(* C2.  For a well-formed string cigar_to_coords returns one vertex per    *)
(* run and one more, the first is (0,0), and no vertex is below its        *)
(* predecessor in either coordinate.                                       *)
(***************************************************************************)
C2_PathShape ==
    (WellFormed(cigar) /\ pc # "cigar_to_coords") =>
        /\ CoordsReturned
        /\ Len(alignment_path) = NumRuns(cigar) + 1
        /\ alignment_path[1] = <<0, 0>>
        /\ \A n \in 2..Len(alignment_path) :
              /\ alignment_path[n][1] >= alignment_path[n - 1][1]
              /\ alignment_path[n][2] >= alignment_path[n - 1][2]

C2_Witness ==
    /\ WellFormed(cigar)
    /\ CoordsReturned
    /\ NumRuns(cigar) >= 2
    /\ alignment_path[3][1] > alignment_path[2][1]
    /\ alignment_path[3][2] = alignment_path[2][2]

(***************************************************************************)
(* C3.  For a well-formed string the last vertex of the path is (sum of    *)
(* the counts of the "=", "X" and "I" runs, sum of the counts of the "=",  *)
(* "X" and "D" runs).                                                      *)
(***************************************************************************)
C3_FinalVertex ==
    (WellFormed(cigar) /\ CoordsReturned) =>
        alignment_path[Len(alignment_path)] =
            <<ReadConsumed(cigar, NumRuns(cigar)),
              RefConsumed(cigar, NumRuns(cigar))>>

C3_Witness ==
    /\ WellFormed(cigar)
    /\ CoordsReturned
    /\ {"=", "X", "I"} \subseteq {RunType(cigar, n) : n \in 1..NumRuns(cigar)}
    /\ alignment_path[Len(alignment_path)] = <<10, 9>>

(***************************************************************************)
(* C4.  For a well-formed string cigar_to_match_coords returns one         *)
(* segment per "=" run and no other, in the order of the runs; a segment   *)
(* starts at the cursor reached by all the runs before its own, and its    *)
(* end is the run's count further in both coordinates.                     *)
(***************************************************************************)
C4_MatchSegments ==
    (WellFormed(cigar) /\ pc = "done") =>
        /\ Len(match_segments) = Cardinality(MatchRuns(cigar))
        /\ \A m \in 1..Len(match_segments) :
              LET n == MatchRunOf(cigar, m)
                  start == match_segments[m][1]
                  end == match_segments[m][2]
              IN  /\ start = <<ReadConsumed(cigar, n - 1),
                               RefConsumed(cigar, n - 1)>>
                  /\ end[1] - start[1] = RunCount(cigar, n)
                  /\ end[2] - start[2] = RunCount(cigar, n)

C4_Witness ==
    /\ cigar = Case1
    /\ pc = "done"
    /\ match_segments = << << <<0, 0>>, <<3, 3>> >>, << <<6, 5>>, <<10, 9>> >> >>

(***************************************************************************)
(* C10.  For a well-formed string every segment of cigar_to_match_coords   *)
(* is a pair of consecutive vertices of the path of cigar_to_coords, the   *)
(* pair made by an "=" run, and there are as many segments as such pairs.  *)
(***************************************************************************)
C10_SegmentsOnPath ==
    (WellFormed(cigar) /\ pc = "done") =>
        /\ Len(match_segments) =
              Cardinality({n \in 1..(Len(alignment_path) - 1) :
                              RunType(cigar, n) = "="})
        /\ \A m \in 1..Len(match_segments) :
              \E n \in 1..(Len(alignment_path) - 1) :
                 /\ n = MatchRunOf(cigar, m)
                 /\ match_segments[m] =
                       <<alignment_path[n], alignment_path[n + 1]>>

C10_Witness ==
    /\ cigar = Case2
    /\ pc = "done"
    /\ alignment_path = << <<0, 0>>, <<0, 2>>, <<3, 5>> >>
    /\ match_segments = << <<alignment_path[2], alignment_path[3]>> >>

(***************************************************************************)
(* C5.  With W > O >= 0 the anchor list starts with (0,0), and every       *)
(* later anchor is at or past the one before it in both coordinates and    *)
(* past it in at least one.                                                *)
(***************************************************************************)
C5_AnchorsAdvance ==
    (W > O /\ O >= 0 /\ pc \in {"window_scan", "done"}) =>
        /\ window_starts[1] = <<0, 0>>
        /\ \A n \in 2..Len(window_starts) :
              /\ window_starts[n][1] >= window_starts[n - 1][1]
              /\ window_starts[n][2] >= window_starts[n - 1][2]
              /\ window_starts[n] # window_starts[n - 1]

C5_Witness ==
    /\ W > O
    /\ pc = "done"
    /\ Len(window_starts) >= 3

(***************************************************************************)
(* C6.  The anchors are those of one forward scan in which a vertex        *)
(* becomes an anchor exactly when it is more than W - O past the last      *)
(* anchor in the read or in the reference coordinate; a vertex exactly     *)
(* W - O past it in both is not one.  Path (0,0),(10,10),(20,20) with      *)
(* W = 16 and O = 4 gives the anchors (0,0),(20,20).                       *)
(***************************************************************************)
RECURSIVE ScannedAnchors(_, _, _)
ScannedAnchors(path, n, stride) ==
    IF n = 0 THEN << <<0, 0>> >>
    ELSE LET before == ScannedAnchors(path, n - 1, stride)
             last == before[Len(before)]
             past_read == path[n][1] - last[1]
             past_ref == path[n][2] - last[2]
         IN  IF ~(past_read <= stride /\ past_ref <= stride)
             THEN before \o <<path[n]>>
             ELSE before

C6_ScanRule ==
    /\ pc \in {"window_scan", "done"} =>
          window_starts = ScannedAnchors(alignment_path, k, W - O)
    /\ (pc = "done" /\ W = 16 /\ O = 4
           /\ alignment_path = << <<0, 0>>, <<10, 10>>, <<20, 20>> >>) =>
          window_starts = << <<0, 0>>, <<20, 20>> >>

\* the scan has passed a vertex exactly W - O past the last anchor in both
\* coordinates, and a later vertex has become an anchor
C6_Witness ==
    /\ pc = "done"
    /\ W > O
    /\ Len(alignment_path) = 3
    /\ alignment_path[2] = <<W - O, W - O>>
    /\ window_starts = << <<0, 0>>, alignment_path[3] >>

(***************************************************************************)
(* C7.  For every W and O, W <= O included, the scan visits every vertex   *)
(* of the path once and ends; the anchor list begins with (0,0), has at    *)
(* most one anchor more than the path has vertices, and every anchor       *)
(* after the first is a vertex of the path.                                *)
(***************************************************************************)
C7_Anchors ==
    pc \in {"window_scan", "done"} =>
        /\ k \in 0..Len(alignment_path)
        /\ window_starts[1] = <<0, 0>>
        /\ Len(window_starts) <= k + 1
        /\ \A n \in 2..Len(window_starts) :
              \E m \in 1..k : window_starts[n] = alignment_path[m]

\* a step of the scan visits the next vertex, and the scan is left only
\* when all of them have been visited
C7_Visit ==
    pc = "window_scan" =>
        /\ alignment_path' = alignment_path
        /\ IF pc' = "window_scan"
           THEN k < Len(alignment_path) /\ k' = k + 1
           ELSE pc' = "done" /\ k = Len(alignment_path) /\ k' = k

C7_ScanBounded == [][C7_Visit /\ C7_Anchors']_vars

C7_Witness ==
    /\ pc = "done"
    /\ W < O
    /\ Len(alignment_path) = 3
    /\ Len(window_starts) = 4

(***************************************************************************)
(* C8.  The rectangle of anchor a ends at (min(a.read + W, len(read)),     *)
(* min(a.reference + W, len(reference))).  When the CIGAR string consumes  *)
(* len(read) and len(reference) characters and W > O >= 0, every           *)
(* rectangle ends at or past its anchor, has no side longer than W and     *)
(* lies inside [0, len(read)] x [0, len(reference)].                       *)
(***************************************************************************)
Clipped(x, len) == IF x <= len THEN x ELSE len

C8_Rectangles ==
    pc = "done" =>
        /\ Len(window_ends) = Len(window_starts)
        /\ \A n \in 1..Len(window_starts) :
              LET a == window_starts[n]
                  e == window_ends[n]
              IN  /\ e = <<Clipped(a[1] + W, read_len),
                           Clipped(a[2] + W, ref_len)>>
                  /\ ( /\ alignment_path[Len(alignment_path)] =
                             <<read_len, ref_len>>
                       /\ W > O /\ O >= 0 )
                     => /\ e[1] >= a[1] /\ e[2] >= a[2]
                        /\ e[1] - a[1] <= W /\ e[2] - a[2] <= W
                        /\ a[1] >= 0 /\ a[2] >= 0
                        /\ e[1] <= read_len /\ e[2] <= ref_len

\* two rectangles, the last one cut short by the end of the read
C8_Witness ==
    /\ pc = "done"
    /\ W > O
    /\ alignment_path[Len(alignment_path)] = <<read_len, ref_len>>
    /\ Len(window_ends) >= 2
    /\ window_ends[Len(window_ends)][1] <
          window_starts[Len(window_starts)][1] + W

(***************************************************************************)
(* C9.  After any sequence of limit changes the labels are those of the    *)
(* limits of the last one: one label per base when                         *)
(* max(int(x_hi) - int(x_lo), int(y_hi) - int(y_lo)) < 100, numeric        *)
(* labels otherwise; and every index labelled is a position of the read    *)
(* (x axis) or of the reference (y axis).                                  *)
(***************************************************************************)
\* int() of a limit in halves, as the integer of least magnitude: the
\* integer n nearest to zero with 2*|n| + 2 > |h|
Truncated(h) ==
    CHOOSE n \in -(ZoomThreshold + 2)..(ZoomThreshold + 2) :
        /\ (h >= 0 => (2 * n <= h /\ h < 2 * n + 2))
        /\ (h < 0 => (2 * n >= h /\ h > 2 * n - 2))

Spread(lim) ==
    LET lo == IF lim[1] < lim[2] THEN lim[1] ELSE lim[2]
        hi == IF lim[1] < lim[2] THEN lim[2] ELSE lim[1]
    IN  Truncated(hi) - Truncated(lo)

ZoomedIn == Spread(xlim) < ZoomThreshold /\ Spread(ylim) < ZoomThreshold

SeqRange(q) == {q[n] : n \in 1..Len(q)}

C9_TickLabels ==
    pc = "relabelled" =>
        /\ ZoomedIn =>
              x_locator = "FixedLocator" /\ y_locator = "FixedLocator"
        /\ ~ZoomedIn =>
              x_locator = "AutoLocator" /\ y_locator = "AutoLocator"
        /\ x_locator = "FixedLocator" => SeqRange(x_indices) \subseteq 0..(read_len - 1)
        /\ y_locator = "FixedLocator" => SeqRange(y_indices) \subseteq 0..(ref_len - 1)

\* zoomed in on a range that reaches past both ends of the read
C9_Witness ==
    /\ pc = "relabelled"
    /\ x_locator = "FixedLocator"
    /\ read_len > 0
    /\ Sorted(xlim)[1] < 0
    /\ Sorted(xlim)[2] > 2 * read_len
    /\ Len(x_indices) = read_len

====
